---- MODULE Spec2Model ----
(***************************************************************************)
(* A model of src/app.py: a Streamlit script that keeps a small JSON state *)
(* file, creates a remote vector store once, uploads the PDFs of data/ to  *)
(* it and answers questions through a remote file-search call.             *)
(*                                                                         *)
(* Streamlit runs the script from top to bottom once per user interaction; *)
(* st.session_state (the chat) survives across the runs of a session, the  *)
(* module-level names (state, vs_id, pdfs) are rebuilt by every run.       *)
(* At most one button is "clicked" in a run.                               *)
(*                                                                         *)
(* Strings the code inspects character by character (the question, the     *)
(* model output) are sequences of one-character strings.                   *)
(***************************************************************************)
EXTENDS Integers, Sequences, FiniteSets, TLC

VARIABLES
    disk,         \* the content of app_state.json (STATE_PATH)
    chat,         \* st.session_state.chat: a sequence of <<role, msg>>
    pc,           \* where the current script run is
    API_KEY,      \* the run's module-level `API_KEY` (line 13)
    question,     \* the run's module-level `question` (line 197)
    client,       \* whether this run built the OpenAI client (line 18)
    state,        \* the run's module-level `state` (line 122)
    vs_id,        \* the run's module-level `vs_id` (line 123)
    pdfs,         \* the run's module-level `pdfs` (line 124)
    shown,        \* the messages this run has put on the page
    exc,          \* the exception that left this run uncaught, or "none"
    calls,        \* what this run has called so far (counters)
    last,         \* the last handler that ran in this run, with what it did
    remote,       \* the vector stores the remote service has created
    call          \* a direct call of one function, outside a script run

vars == <<disk, chat, pc, API_KEY, question, client, state, vs_id, pdfs, shown, exc, calls, last, remote, call>>

appvars == <<disk, chat, pc, API_KEY, question, client, state, vs_id, pdfs, shown, exc, calls, last, remote>>

----------------------------------------------------------------------------
(* Bounds of the model. *)

\* time.time() is drawn from 1..MaxTime
MaxTime == 2
\* the chat transcript is capped at MaxChat entries
MaxChat == 4
\* index_pdfs is called directly with lists of at most MaxPdfs paths
MaxPdfs == 2
\* _sanitize_output is called directly with texts of at most MaxPieces pieces
MaxPieces == 4

----------------------------------------------------------------------------
(* Python values. *)

\* None, for the string-valued slots
Null == "None"
\* None, for last_index_time (an int otherwise)
NullTime == -1

\* bool(x) of a str-or-None value
Truthy(x) == x # Null /\ x # ""

\* the ids the remote service may hand out
VsIds == {"vs_1", "vs_2"}
\* the file names data/ may hold
Names == {"a.pdf", "b.pdf"}

Fields == {"vector_store_id", "indexed_files", "last_index_time"}

\* A JSON value as json.loads returns it: a dict (its items a function from
\* keys to values) or something that is not a dict (a list, here).
Dict(items) == [type |-> "dict", items |-> items]
NotADict == [type |-> "list", items |-> <<>>]
NoVal == [type |-> "none", items |-> <<>>]

\* d.get(k, default)
dict_get(d, k, default) == IF k \in DOMAIN d.items THEN d.items[k] ELSE default

\* d[k] = v
dict_set(d, k, v) ==
    Dict([x \in (DOMAIN d.items) \cup {k} |-> IF x = k THEN v ELSE d.items[x]])

\* the dict load_state returns when there is nothing to load (line 34)
DefaultState ==
    Dict([k \in Fields |->
            CASE k = "vector_store_id" -> Null
              [] k = "indexed_files" -> <<>>
              [] k = "last_index_time" -> NullTime])

----------------------------------------------------------------------------
(* The state file. *)

\* the file does not exist
FileMissing == [kind |-> "missing", val |-> NoVal]
\* the file exists and read_text raises (no permission, not UTF-8)
FileUnreadable == [kind |-> "unreadable", val |-> NoVal]
\* the file is read and is not JSON
FileGarbage == [kind |-> "garbage", val |-> NoVal]

\* json.dumps(state, ...): the text written, held by the value it encodes
json_dumps(v) == [kind |-> "json", val |-> v]

\* STATE_PATH.exists()
path_exists(f) == f.kind # "missing"

\* json.loads(STATE_PATH.read_text()): the value, or an exception
json_loads_read_text(f) ==
    IF f.kind = "json" THEN [raised |-> FALSE, val |-> f.val]
                       ELSE [raised |-> TRUE, val |-> NoVal]

load_state(f) ==
    IF path_exists(f) /\ ~json_loads_read_text(f).raised
    THEN json_loads_read_text(f).val
    ELSE DefaultState

\* save_state: write_text either writes the whole text or raises OSError
save_state(st, f, saveOk) ==
    IF saveOk THEN [raised |-> FALSE, disk |-> json_dumps(st)]
              ELSE [raised |-> TRUE, disk |-> f]

\* the files a session may start with
InitFiles ==
    { FileMissing, FileUnreadable, FileGarbage,
      json_dumps(NotADict),
      json_dumps(Dict(<<>>)),
      json_dumps(DefaultState),
      json_dumps(dict_set(DefaultState, "vector_store_id", "")),
      json_dumps(Dict([k \in {"vector_store_id"} |-> "vs_1"])),
      json_dumps(dict_set(dict_set(dict_set(DefaultState,
            "vector_store_id", "vs_2"), "indexed_files", <<"a.pdf">>),
            "last_index_time", 1)) }

\* list_local_pdfs(): the sorted list of the PDFs of data/
SortedLists == { <<>>, <<"a.pdf">>, <<"b.pdf">>, <<"a.pdf", "b.pdf">> }

Range(s) == { s[i] : i \in DOMAIN s }

----------------------------------------------------------------------------
(* Text: str.replace, str.strip and _sanitize_output. *)

Whitespace == {" ", "\n", "\t"}

FILE == <<"f", "i", "l", "e">>
CITE == <<"c", "i", "t", "e">>
TURN0 == <<"t", "u", "r", "n", "0">>
TURN1 == <<"t", "u", "r", "n", "1">>
TURN2 == <<"t", "u", "r", "n", "2">>

\* the list of line 85
Artifacts == << <<>>, FILE \o CITE, TURN0 \o FILE, TURN1 \o FILE, TURN2 \o FILE >>

\* text.replace(old, ""): the occurrences of old found scanning from the left,
\* none overlapping another, are left out; an empty old changes nothing
RECURSIVE str_remove(_, _)
str_remove(text, old) ==
    IF old = <<>> \/ Len(text) < Len(old) THEN text
    ELSE IF SubSeq(text, 1, Len(old)) = old
         THEN str_remove(SubSeq(text, Len(old) + 1, Len(text)), old)
         ELSE <<text[1]>> \o str_remove(Tail(text), old)

RECURSIVE lstrip(_)
lstrip(text) ==
    IF text # <<>> /\ text[1] \in Whitespace THEN lstrip(Tail(text)) ELSE text

RECURSIVE rstrip(_)
rstrip(text) ==
    IF text # <<>> /\ text[Len(text)] \in Whitespace
    THEN rstrip(SubSeq(text, 1, Len(text) - 1)) ELSE text

\* text.strip()
strip(text) == rstrip(lstrip(text))

\* the loop of lines 85-86, from the i-th entry of the list on
RECURSIVE remove_each(_, _, _)
remove_each(text, bads, i) ==
    IF i > Len(bads) THEN text
    ELSE remove_each(str_remove(text, bads[i]), bads, i + 1)

_sanitize_output(text) ==
    IF text = <<>> THEN <<>> ELSE strip(remove_each(text, Artifacts, 1))

\* whether old occurs in text
Occurs(old, text) ==
    \E i \in 1..(Len(text) - Len(old) + 1) : SubSeq(text, i, i + Len(old) - 1) = old

----------------------------------------------------------------------------
(* The remote calls and the functions around them. *)

\* client.vector_stores.create: an id, or an exception
CreateOutcomes(fresh) ==
    {[ok |-> FALSE, id |-> Null]} \cup {[ok |-> TRUE, id |-> i] : i \in fresh}

\* upload_and_poll: a batch in a final status, a batch without a status
\* attribute, or an exception
UploadOutcomes ==
    {[ok |-> FALSE, hasStatus |-> FALSE, status |-> Null],
     [ok |-> TRUE, hasStatus |-> FALSE, status |-> Null]}
    \cup {[ok |-> TRUE, hasStatus |-> TRUE, status |-> s] :
            s \in {"completed", "failed", "cancelled"}}

\* client.responses.create: an output text, or an exception
AskTexts == { <<"o", "k">>, <<" ">> \o FILE \o CITE \o <<"o", "k", "\n">> }
AskOutcomes ==
    {[ok |-> FALSE, text |-> <<>>]} \cup {[ok |-> TRUE, text |-> t] : t \in AskTexts}

\* ensure_vector_store without the check of lines 49-50
ensure_vector_store_no_memo(st, f, create, saveOk) ==
    IF st.type # "dict"
    THEN [raised |-> "AttributeError", ret |-> Null, state |-> st, disk |-> f,
          create |-> 0, save |-> 0]
    ELSE IF ~create.ok
    THEN [raised |-> "APIError", ret |-> Null, state |-> st, disk |-> f,
          create |-> 1, save |-> 0]
    ELSE LET st1 == dict_set(st, "vector_store_id", create.id)
             sv == save_state(st1, f, saveOk)
         IN  IF sv.raised
             THEN [raised |-> "OSError", ret |-> Null, state |-> st1, disk |-> f,
                   create |-> 1, save |-> 1]
             ELSE [raised |-> "none", ret |-> create.id, state |-> st1,
                   disk |-> sv.disk, create |-> 1, save |-> 1]

ensure_vector_store(st, f, create, saveOk) ==
    IF st.type # "dict"
    THEN \* state.get: 'list' object has no attribute 'get'
         [raised |-> "AttributeError", ret |-> Null, state |-> st, disk |-> f,
          create |-> 0, save |-> 0]
    ELSE IF Truthy(dict_get(st, "vector_store_id", Null))
    THEN [raised |-> "none", ret |-> st.items["vector_store_id"], state |-> st,
          disk |-> f, create |-> 0, save |-> 0]
    ELSE IF ~create.ok
    THEN [raised |-> "APIError", ret |-> Null, state |-> st, disk |-> f,
          create |-> 1, save |-> 0]
    ELSE LET st1 == dict_set(st, "vector_store_id", create.id)
             sv == save_state(st1, f, saveOk)
         IN  IF sv.raised
             THEN [raised |-> "OSError", ret |-> Null, state |-> st1, disk |-> f,
                   create |-> 1, save |-> 1]
             ELSE [raised |-> "none", ret |-> create.id, state |-> st1,
                   disk |-> sv.disk, create |-> 1, save |-> 1]

\* the loop of lines 65-66: open(p, "rb") for the i-th path on; opening the
\* openFail-th path raises (0: every open succeeds)
RECURSIVE open_loop(_, _, _, _)
open_loop(paths, i, openFail, streams) ==
    IF i > Len(paths) THEN [raised |-> FALSE, streams |-> streams]
    ELSE IF i = openFail THEN [raised |-> TRUE, streams |-> streams]
    ELSE open_loop(paths, i + 1, openFail,
                   Append(streams, [h |-> i, path |-> paths[i]]))

\* the finally block without the try/except of lines 75-78: the first close
\* that raises ends the loop and its exception leaves the function
RECURSIVE close_all_unguarded(_, _, _)
close_all_unguarded(streams, i, closeFail) ==
    IF i > Len(streams) THEN [raised |-> "none", closed |-> {}]
    ELSE IF streams[i].h \in closeFail
    THEN [raised |-> "OSError", closed |-> {streams[i].h}]
    ELSE LET rest == close_all_unguarded(streams, i + 1, closeFail)
         IN  [raised |-> rest.raised, closed |-> {streams[i].h} \cup rest.closed]

\* the finally block of lines 73-78: every stream is closed, and a close that
\* raises (the handles of closeFail) is passed over
RECURSIVE close_all(_, _, _)
close_all(streams, i, closeFail) ==
    IF i > Len(streams) THEN [raised |-> "none", closed |-> {}]
    ELSE LET rest == close_all(streams, i + 1, closeFail)
         IN  [raised |-> rest.raised, closed |-> {streams[i].h} \cup rest.closed]

\* index_pdfs without the early return of lines 60-61
index_pdfs_no_guard(vector_store_id, pdf_paths, openFail, upload, closeFail) ==
    LET o == open_loop(pdf_paths, 1, openFail, <<>>)
        body == IF o.raised
                THEN [ret |-> Null, raised |-> "FileNotFoundError", upload |-> 0]
                ELSE IF ~upload.ok
                THEN [ret |-> Null, raised |-> "APIError", upload |-> 1]
                ELSE [ret |-> IF upload.hasStatus THEN upload.status ELSE "ok",
                      raised |-> "none", upload |-> 1]
        fin == close_all(o.streams, 1, closeFail)
    IN  [ret |-> IF fin.raised = "none" THEN body.ret ELSE Null,
         raised |-> IF fin.raised = "none" THEN body.raised ELSE fin.raised,
         opened |-> { o.streams[i].h : i \in DOMAIN o.streams },
         closed |-> fin.closed,
         upload |-> body.upload,
         sent |-> IF body.upload = 1
                  THEN << [vs |-> vector_store_id,
                           files |-> [i \in DOMAIN o.streams |-> o.streams[i].path]] >>
                  ELSE <<>>,
         primary |-> body.raised]

index_pdfs(vector_store_id, pdf_paths, openFail, upload, closeFail) ==
    IF pdf_paths = <<>>
    THEN [ret |-> "no_pdfs", raised |-> "none", opened |-> {}, closed |-> {},
          upload |-> 0, sent |-> <<>>, primary |-> "none"]
    ELSE LET o == open_loop(pdf_paths, 1, openFail, <<>>)
             body == IF o.raised
                     THEN [ret |-> Null, raised |-> "FileNotFoundError", upload |-> 0]
                     ELSE IF ~upload.ok
                     THEN [ret |-> Null, raised |-> "APIError", upload |-> 1]
                     ELSE [ret |-> IF upload.hasStatus THEN upload.status ELSE "ok",
                           raised |-> "none", upload |-> 1]
             fin == close_all(o.streams, 1, closeFail)
         IN  [ret |-> IF fin.raised = "none" THEN body.ret ELSE Null,
              \* an exception leaving the finally block replaces the body's
              raised |-> IF fin.raised = "none" THEN body.raised ELSE fin.raised,
              opened |-> { o.streams[i].h : i \in DOMAIN o.streams },
              closed |-> fin.closed,
              upload |-> body.upload,
              sent |-> IF body.upload = 1
                       THEN << [vs |-> vector_store_id,
                                files |-> [i \in DOMAIN o.streams |-> o.streams[i].path]] >>
                       ELSE <<>>,
              primary |-> body.raised]

Models == {"gpt-5-mini", "gpt-5"}

ask(vector_store_id, typed, model, resp) ==
    IF resp.ok
    THEN [raised |-> "none", ret |-> _sanitize_output(resp.text)]
    ELSE [raised |-> "APIError", ret |-> <<>>]

----------------------------------------------------------------------------
(* The script: configuration, startup and the three button handlers. *)

\* the values os.getenv("OPENAI_API_KEY") may have
ApiKeys == {Null, "", "sk-1"}

\* the configuration check without st.stop() (line 16)
config_ok_no_stop(key) == TRUE

\* lines 14-16: whether the run goes on past the configuration check
config_ok(key) == Truthy(key)

\* lines 126-129
already_indexed(st, pdfList) ==
    /\ Len(pdfList) > 0
    /\ Range(dict_get(st, "indexed_files", <<>>)) = Range(pdfList)

\* f"Hata: {e}"
Hata == <<"H", "a", "t", "a", ":", " ", "e">>

\* the index button writing a state built anew from the two fields it sets
index_handler_fresh_state(st, f, vs, pdfList, openFail, upload, closeFail, now, saveOk) ==
    LET r == index_pdfs(vs, pdfList, openFail, upload, closeFail)
        st1 == dict_set(dict_set(DefaultState, "indexed_files", pdfList),
                        "last_index_time", now)
        sv == save_state(st1, f, saveOk)
    IN  IF r.raised # "none"
        THEN [state |-> st, disk |-> f, shown |-> "index_error", res |-> r, save |-> 0]
        ELSE IF sv.raised
        THEN [state |-> st1, disk |-> f, shown |-> "index_error", res |-> r, save |-> 1]
        ELSE [state |-> st1, disk |-> sv.disk, shown |-> "index_success", res |-> r,
              save |-> 1]

\* lines 149-157, the body of the index button
index_handler(st, f, vs, pdfList, openFail, upload, closeFail, now, saveOk) ==
    LET r == index_pdfs(vs, pdfList, openFail, upload, closeFail)
        st1 == dict_set(dict_set(st, "indexed_files", pdfList), "last_index_time", now)
        sv == save_state(st1, f, saveOk)
    IN  IF r.raised # "none"
        THEN [state |-> st, disk |-> f, shown |-> "index_error", res |-> r, save |-> 0]
        ELSE IF sv.raised
        THEN [state |-> st1, disk |-> f, shown |-> "index_error", res |-> r, save |-> 1]
        ELSE [state |-> st1, disk |-> sv.disk, shown |-> "index_success", res |-> r,
              save |-> 1]

\* the answer button testing `not question` instead of `not question.strip()`
answer_handler_no_strip(chatv, typed, vs, model, resp) ==
    IF typed = <<>>
    THEN [chat |-> chatv, shown |-> "empty_question_warning", ask |-> 0,
          remoteErr |-> "none"]
    ELSE LET a == ask(vs, strip(typed), model, resp)
             answer == IF a.raised = "none" THEN a.ret ELSE Hata
         IN  [chat |-> Append(Append(chatv, <<"Sen", strip(typed)>>),
                              <<"Asistan", answer>>),
              shown |-> "answer", ask |-> 1,
              remoteErr |-> IF a.raised = "none" THEN "none" ELSE "ask"]

\* lines 205-214, the body of the answer button
answer_handler(chatv, typed, vs, model, resp) ==
    IF strip(typed) = <<>>
    THEN [chat |-> chatv, shown |-> "empty_question_warning", ask |-> 0,
          remoteErr |-> "none"]
    ELSE LET a == ask(vs, strip(typed), model, resp)
             answer == IF a.raised = "none" THEN a.ret ELSE Hata
         IN  [chat |-> Append(Append(chatv, <<"Sen", strip(typed)>>),
                              <<"Asistan", answer>>),
              shown |-> "answer", ask |-> 1,
              remoteErr |-> IF a.raised = "none" THEN "none" ELSE "ask"]

\* the text area's content when the answer button is clicked
Questions == { <<>>, <<" ">>, <<"\n", " ">>, <<"q">>, <<" ", "q", " ">> }

NoCalls == [load |-> 0, create |-> 0, save |-> 0, upload |-> 0, ask |-> 0, open |-> 0]

NoRes == index_pdfs(Null, <<>>, 0, [ok |-> FALSE, hasStatus |-> FALSE, status |-> Null], {})

Last(name, remoteErr, res) ==
    [name |-> name, disk0 |-> disk, state0 |-> state, chat0 |-> chat,
     remoteErr |-> remoteErr, res |-> res]

NoCall == [fn |-> "none"]

AppInit ==
    /\ disk \in InitFiles
    /\ chat = <<>>
    /\ pc = "idle"
    /\ API_KEY = Null
    /\ question = <<>>
    /\ client = FALSE
    /\ state = NoVal
    /\ vs_id = Null
    /\ pdfs = <<>>
    /\ shown = {}
    /\ exc = "none"
    /\ calls = NoCalls
    /\ last = [name |-> "none", disk0 |-> disk, state0 |-> NoVal, chat0 |-> <<>>,
               remoteErr |-> "none", res |-> NoRes]
    /\ remote = {}

Init == AppInit /\ call = NoCall

\* One run of the script from line 11 to line 129: the configuration check, the
\* client, load_state, ensure_vector_store, list_local_pdfs.
ScriptStart(key, dirPdfs, create, saveOk) ==
    /\ pc \in {"idle", "done", "stopped", "crashed"}
    /\ API_KEY' = key
    /\ question' = <<>>
    /\ IF ~config_ok(key)
       THEN /\ pc' = "stopped"
            /\ client' = FALSE
            /\ state' = NoVal
            /\ vs_id' = Null
            /\ pdfs' = <<>>
            /\ shown' = {"config_error"}
            /\ exc' = "none"
            /\ calls' = NoCalls
            /\ last' = [name |-> "stop", disk0 |-> disk, state0 |-> NoVal,
                        chat0 |-> chat, remoteErr |-> "none", res |-> NoRes]
            /\ UNCHANGED <<disk, chat, remote>>
       ELSE LET st0 == load_state(disk)
                e == ensure_vector_store(st0, disk, create, saveOk)
            IN  /\ client' = TRUE
                /\ state' = e.state
                /\ disk' = e.disk
                /\ calls' = [NoCalls EXCEPT !.load = 1, !.create = e.create,
                                            !.save = e.save]
                /\ remote' = IF e.create = 1 /\ create.ok
                             THEN remote \cup {create.id} ELSE remote
                /\ last' = [name |-> "start", disk0 |-> disk, state0 |-> st0,
                            chat0 |-> chat,
                            remoteErr |-> IF e.raised = "APIError" THEN "create"
                                                                   ELSE "none",
                            res |-> NoRes]
                /\ IF e.raised # "none"
                   THEN /\ pc' = "crashed"
                        /\ exc' = e.raised
                        /\ vs_id' = Null
                        /\ pdfs' = <<>>
                        /\ shown' = {}
                   ELSE /\ pc' = "ui"
                        /\ exc' = "none"
                        /\ vs_id' = e.ret
                        /\ pdfs' = dirPdfs
                        /\ shown' = IF already_indexed(e.state, dirPdfs)
                                    THEN {"already_indexed"} ELSE {}
                /\ UNCHANGED chat
    /\ UNCHANGED call

\* The run in which the index button was clicked (lines 148-157); the button
\* is disabled when there are no PDFs or they are indexed already.
IndexButton(openFail, upload, closeFail, now, saveOk) ==
    /\ pc = "ui"
    /\ ~(Len(pdfs) = 0 \/ already_indexed(state, pdfs))
    /\ LET h == index_handler(state, disk, vs_id, pdfs, openFail, upload,
                              closeFail, now, saveOk)
       IN  /\ state' = h.state
           /\ disk' = h.disk
           /\ shown' = shown \cup {h.shown}
           /\ calls' = [calls EXCEPT !.upload = @ + h.res.upload,
                                     !.open = @ + Cardinality(h.res.opened),
                                     !.save = @ + h.save]
           /\ last' = Last("index",
                           IF h.res.raised = "APIError" THEN "upload" ELSE "none",
                           h.res)
    /\ pc' = "done"
    /\ UNCHANGED <<chat, API_KEY, question, client, vs_id, pdfs, exc, remote, call>>

\* The run in which "Sohbeti temizle" was clicked (lines 180-181).
ClearButton ==
    /\ pc = "ui"
    /\ chat' = <<>>
    /\ last' = Last("clear", "none", NoRes)
    /\ pc' = "done"
    /\ UNCHANGED <<disk, API_KEY, question, client, state, vs_id, pdfs, shown, exc,
                   calls, remote, call>>

\* The run in which "Cevapla" was clicked (lines 204-214).
AnswerButton(typed, model, resp) ==
    /\ pc = "ui"
    /\ strip(typed) = <<>> \/ Len(chat) + 2 <= MaxChat
    /\ question' = typed
    /\ LET h == answer_handler(chat, typed, vs_id, model, resp)
       IN  /\ chat' = h.chat
           /\ shown' = shown \cup {h.shown}
           /\ calls' = [calls EXCEPT !.ask = @ + h.ask]
           /\ last' = Last("answer", h.remoteErr, NoRes)
    /\ pc' = "done"
    /\ UNCHANGED <<disk, API_KEY, client, state, vs_id, pdfs, exc, remote, call>>

\* A run in which no button was clicked: the page is drawn and the run ends.
NoClick ==
    /\ pc = "ui"
    /\ pc' = "done"
    /\ UNCHANGED <<disk, chat, API_KEY, question, client, state, vs_id, pdfs, shown,
                   exc, calls, last, remote, call>>

Next ==
    \/ \E key \in ApiKeys, dirPdfs \in SortedLists,
          create \in CreateOutcomes(VsIds \ remote), saveOk \in BOOLEAN :
            ScriptStart(key, dirPdfs, create, saveOk)
    \/ \E openFail \in 0..Len(pdfs), upload \in UploadOutcomes,
          closeFail \in SUBSET (1..Len(pdfs)), now \in 1..MaxTime, saveOk \in BOOLEAN :
            IndexButton(openFail, upload, closeFail, now, saveOk)
    \/ ClearButton
    \/ \E typed \in Questions, model \in Models, resp \in AskOutcomes :
            AnswerButton(typed, model, resp)
    \/ NoClick

Spec == Init /\ [][Next]_vars

----------------------------------------------------------------------------
(* index_pdfs called on its own, with any list of paths. *)

RECURSIVE SeqsUpTo(_, _)
SeqsUpTo(S, n) ==
    IF n = 0 THEN {<<>>}
    ELSE LET prev == SeqsUpTo(S, n - 1)
         IN  prev \cup { <<x>> \o t : x \in S, t \in prev }

IndexCalls ==
    { [fn |-> "index_pdfs", done |-> FALSE, vs |-> v, paths |-> ps, openFail |-> k,
       upload |-> u, closeFail |-> cf, res |-> NoRes] :
        v \in VsIds, ps \in SeqsUpTo(Names, MaxPdfs), k \in 0..MaxPdfs,
        u \in UploadOutcomes, cf \in SUBSET (1..MaxPdfs) }

InitIndex == AppInit /\ disk = FileMissing /\ call \in IndexCalls

CallIndexPdfs ==
    /\ call.fn = "index_pdfs"
    /\ ~call.done
    /\ call' = [call EXCEPT !.done = TRUE,
                            !.res = index_pdfs(call.vs, call.paths, call.openFail,
                                               call.upload, call.closeFail)]
    /\ UNCHANGED appvars

NextIndex == CallIndexPdfs

SpecIndex == InitIndex /\ [][NextIndex]_vars

----------------------------------------------------------------------------
(* _sanitize_output called on its own, with texts built from the pieces the *)
(* artifacts are made of.                                                   *)

Pieces == { FILE, CITE, TURN0, <<" ">>, <<"a">> }

Texts == SeqsUpTo(Pieces, MaxPieces)

Flatten(t) == IF t = <<>> THEN <<>> ELSE
    LET F[i \in 1..Len(t)] == IF i = 1 THEN t[1] ELSE F[i - 1] \o t[i] IN F[Len(t)]

SanitizeCalls ==
    { [fn |-> "_sanitize_output", done |-> FALSE, text |-> Flatten(t), res |-> <<>>] :
        t \in Texts }

InitSanitize == AppInit /\ disk = FileMissing /\ call \in SanitizeCalls

CallSanitize ==
    /\ call.fn = "_sanitize_output"
    /\ ~call.done
    /\ call' = [call EXCEPT !.done = TRUE, !.res = _sanitize_output(call.text)]
    /\ UNCHANGED appvars

NextSanitize == CallSanitize

SpecSanitize == InitSanitize /\ [][NextSanitize]_vars

----------------------------------------------------------------------------
(* Properties. *)

\* the vector_store_id the state file holds, None when it holds none
DiskId ==
    IF disk.kind = "json" /\ disk.val.type = "dict"
    THEN dict_get(disk.val, "vector_store_id", Null) ELSE Null

StateId(st) == dict_get(st, "vector_store_id", Null)

C2_RemoteErrorsCaught ==
    last.remoteErr # "none" =>
        /\ exc = "none"
        /\ pc # "crashed"
        /\ CASE last.remoteErr = "create" -> shown # {}
             [] last.remoteErr = "upload" -> "index_error" \in shown
             [] last.remoteErr = "ask" -> chat[Len(chat)] = <<"Asistan", Hata>>

\* C3: an index action whose upload raised, or whose batch ended in a status
\* other than success, leaves indexed_files and last_index_time as they were,
\* in memory and in the file.
C3_IndexOnlyOnSuccess ==
    (/\ last.name = "index"
     /\ last.res.upload = 1
     /\ \/ last.res.raised = "APIError"
        \/ last.res.raised = "none" /\ last.res.ret \in {"failed", "cancelled"})
    => /\ disk = last.disk0
       /\ dict_get(state, "indexed_files", <<>>)
            = dict_get(last.state0, "indexed_files", <<>>)
       /\ dict_get(state, "last_index_time", NullTime)
            = dict_get(last.state0, "last_index_time", NullTime)

\* C4: whatever the state file holds, load_state returns a dict with the
\* three fields, and the default one when the file is missing, unreadable,
\* not JSON or JSON that is not such a record.
C4_LoadStateValid ==
    last.name = "start" =>
        /\ last.state0.type = "dict"
        /\ Fields \subseteq DOMAIN last.state0.items
        /\ ( \/ last.disk0.kind # "json"
             \/ last.disk0.val.type # "dict"
             \/ ~(Fields \subseteq DOMAIN last.disk0.val.items) )
           => last.state0 = DefaultState

\* the handles a call of index_pdfs opens: all of them, or those before the
\* path whose open raised
ExpectedOpened(paths, openFail) ==
    IF openFail \in 1..Len(paths) THEN 1..(openFail - 1) ELSE 1..Len(paths)

\* C5: when index_pdfs has returned or raised, every handle it opened is
\* closed, and the exception the caller sees is the one that ended the body
\* (none when the body returned), never one raised by a close.
C5_HandlesClosed ==
    (call.fn = "index_pdfs" /\ call.done /\ call.paths # <<>>) =>
        /\ call.res.opened = ExpectedOpened(call.paths, call.openFail)
        /\ call.res.closed = call.res.opened
        /\ call.res.raised = call.res.primary
        /\ call.res.raised =
             IF call.openFail \in 1..Len(call.paths) THEN "FileNotFoundError"
             ELSE IF ~call.upload.ok THEN "APIError" ELSE "none"

\* C5 witness: the second open raised after the first succeeded, and closing
\* the first handle raised too
C5_Witness ==
    /\ call.fn = "index_pdfs"
    /\ call.done
    /\ Len(call.paths) = 2
    /\ call.openFail = 2
    /\ 1 \in call.closeFail
    /\ call.res.opened = {1}
    /\ call.res.closed = {1}
    /\ call.res.raised = "FileNotFoundError"

C7_NoArtifactLeft ==
    (call.fn = "_sanitize_output" /\ call.done) =>
        /\ \A i \in DOMAIN Artifacts :
             Artifacts[i] # <<>> => ~Occurs(Artifacts[i], call.res)
        /\ call.text = <<>> => call.res = <<>>

\* C8: an answer click with an empty or whitespace-only question calls
\* nothing remote, leaves the chat and the state file as they were and shows
\* the warning.
C8_BlankQuestionRejected ==
    (last.name = "answer" /\ \A i \in DOMAIN question : question[i] \in Whitespace) =>
        /\ calls.ask = 0
        /\ chat = last.chat0
        /\ disk = last.disk0
        /\ state = last.state0
        /\ "empty_question_warning" \in shown

\* C8 witness: a whitespace-only question asked after an earlier answer
C8_Witness ==
    /\ last.name = "answer"
    /\ question = <<"\n", " ">>
    /\ Len(chat) = 2
    /\ calls.ask = 0

\* C9: a run that finds no OPENAI_API_KEY stops at the configuration check:
\* no client, no remote call, no read or write of the state file, and no
\* button handler runs in it.
C9_MissingKeyStops ==
    (pc # "idle" /\ ~Truthy(API_KEY)) =>
        /\ pc = "stopped"
        /\ last.name = "stop"
        /\ ~client
        /\ calls = NoCalls
        /\ disk = last.disk0
        /\ chat = last.chat0
        /\ shown = {"config_error"}

\* C9 witness: the key went missing in a session that had already created a
\* vector store and answered a question
C9_Witness ==
    /\ pc = "stopped"
    /\ API_KEY = ""
    /\ remote # {}
    /\ chat # <<>>

\* C10: index_pdfs called with an empty list returns "no_pdfs" without
\* opening a file and without a remote call.
C10_EmptyListNoRemote ==
    (call.fn = "index_pdfs" /\ call.done /\ call.paths = <<>>) =>
        /\ call.res.ret = "no_pdfs"
        /\ call.res.raised = "none"
        /\ call.res.upload = 0
        /\ call.res.sent = <<>>
        /\ call.res.opened = {}

\* C10 witness: the empty list, with a remote service that would have taken
\* the upload
C10_Witness ==
    /\ call.fn = "index_pdfs"
    /\ call.done
    /\ call.paths = <<>>
    /\ call.upload.ok
    /\ call.res.ret = "no_pdfs"

====
